---- MODULE Spec2Model ----
(***************************************************************************)
(* WordSurf: curve geometry, geometry cache, level layout and the          *)
(* per-tick collision / word-progress logic of the player.                 *)
(*                                                                         *)
(* Numbers.  The program computes in IEEE doubles; the model computes in   *)
(* fixed point with three decimals: a length, height, position or speed v  *)
(* of the program is the integer 1000*v here (6 units = 6000).  Curviness  *)
(* is kept in hundredths (5.04 = 504), time steps in milliseconds.         *)
(* Math.sin is Bhaskara's rational approximation, evaluated on integers.   *)
(***************************************************************************)
EXTENDS Integers, Sequences, FiniteSets, TLC, Bags

VARIABLES
    geometryCache,   \* GeometryGenerator.geometryCache: cache key -> cached mesh
    game,            \* Game.state (isLoading, isPlaying, isPaused, level)
    player,          \* Player.state
    input,           \* Player.input
    tick,            \* what the last tick executed on the level in place did (calls, intermediate values)
    hist,            \* per platform: awards made so far in this run
    probe,           \* createLevel on its own: the sentence list and the level built from it
    pipeline,        \* ContentPipeline: the processUrl call under way and articleData
    audio,           \* AudioManager: queue, cache and the generateAudio requests in flight
    session          \* Game.scene, Player.object, the animate callbacks requested, the screens shown

vars == <<geometryCache, game, player, input, tick, hist, probe, pipeline, audio, session>>

----------------------------------------------------------------------------
(* Bounds of the model *)

\* number of game starts explored
MaxRuns == 1

\* number of key presses and releases delivered during one run
MaxKeyEvents == 2

\* longest sentence list handed to createLevel on its own
MaxSentences == 3

\* most platforms of a level handed to checkPlatformCollisions on its own
MaxStacked == 3

\* calls made to AudioManager when it is run on its own
MaxAudioCalls == 3

\* sample points along a curve, half a unit apart
MaxSamples == 8

\* platforms requested from GeometryGenerator when it is run on its own
MaxRequests == 2

\* startGame calls accepted in one session of several runs
MaxStarts == 2

\* key events of a run in which the player turns back and forth
MaxTurns == 3

----------------------------------------------------------------------------
(* CONFIG and literal constants of the code, in the model's units *)

playerSpeed == 5000
jumpForce == 8000
gravity == 500
platformWidth == 2
maxCurviness == 1000
scorePerWord == 10
bonusMultiplier == 2
minSentenceLength == 3
defaultCurviness == 500
unitsPerWord == 2000
gapBetweenPlatforms == 2000
globalDownwardSlope == 5000
playerRadius == 500
horizontalAccel == 500
terminalSpeed == 20000
maxDelta == 100
startInsetX == 1000
startLiftY == 2000
fallLimit == 20000

----------------------------------------------------------------------------
(* Arithmetic helpers *)

Min(a, b) == IF a <= b THEN a ELSE b
Max(a, b) == IF a >= b THEN a ELSE b
Abs(a) == IF a < 0 THEN -a ELSE a

\* quotient rounded toward zero (the model's rounding of a double product)
TruncDiv(a, b) == IF a >= 0 THEN a \div b ELSE -((-a) \div b)

\* Math.sin of a phase given in thousandths of a turn, result in thousandths
SinTurn(ph) ==
    LET p == ph % 1000
        h == IF p < 500 THEN p ELSE p - 500
        u == h * (500 - h)
        s == (4000 * u) \div (312500 - u)
    IN  IF p < 500 THEN s ELSE -s

----------------------------------------------------------------------------
(* Text.  A text is a sequence of characters; " " is any whitespace         *)
(* character, every other character is part of a word.                      *)

RECURSIVE TrimLeft(_)
TrimLeft(t) == IF t # <<>> /\ Head(t) = " " THEN TrimLeft(Tail(t)) ELSE t

RECURSIVE TrimRight(_)
TrimRight(t) ==
    IF t # <<>> /\ t[Len(t)] = " " THEN TrimRight(SubSeq(t, 1, Len(t) - 1)) ELSE t

\* String.prototype.trim
Trim(t) == TrimRight(TrimLeft(t))

RECURSIVE SplitFrom(_, _, _, _, _)
SplitFrom(t, i, done, cur, inSpace) ==
    IF i > Len(t) THEN Append(done, cur)
    ELSE IF t[i] = " "
         THEN IF inSpace THEN SplitFrom(t, i + 1, done, cur, TRUE)
              ELSE SplitFrom(t, i + 1, Append(done, cur), <<>>, TRUE)
         ELSE SplitFrom(t, i + 1, done, Append(cur, t[i]), FALSE)

\* text.split(/\s+/): the pieces between maximal runs of whitespace
SplitWhitespace(t) == SplitFrom(t, 1, <<>>, <<>>, FALSE)

\* Utils.countWords
countWords(text) ==
    IF text = <<>> THEN 0 ELSE Len(SplitWhitespace(Trim(text)))

----------------------------------------------------------------------------
(* Utils.generateCurve *)

\* x and length in thousandths of a unit, curviness in hundredths
generateCurve(x, length, curviness) ==
    LET normalizedCurviness == (curviness * 1000) \div maxCurviness
        amplitude == normalizedCurviness * 5
        frequency == 1000 + normalizedCurviness * 2
        sineWave == (amplitude * SinTurn((frequency * x) \div length)) \div 1000
        \* cos(-35 deg) = 0.819, sin(-35 deg) = -0.574
        rotatedY == (sineWave * 819) \div 1000 - (x * (-574)) \div 1000
        globalSlope == -((500 * x) \div length)
    IN  rotatedY + globalSlope

----------------------------------------------------------------------------
(* GeometryGenerator: cached platform surfaces *)

NoCurveFunction == [bound |-> FALSE, length |-> 0, curviness |-> 0]

\* Number.prototype.toFixed(1) of a curviness given in hundredths: tenths
ToFixed1(curviness) == (curviness + 5) \div 10

CacheKey(length, width, curviness) == <<length, width, ToFixed1(curviness)>>

\* the mesh built at lines 79-134: shape sampled from the curve, plus the
\* height function closed over (length, curviness); geometry names the
\* ShapeGeometry object of line 113, one per build
BuildMesh(length, width, curviness) ==
    [ geometry      |-> <<length, width, curviness>>,
      shapeLength   |-> length,
      shapeCurviness |-> curviness,
      isCollidable  |-> TRUE,
      curveFunction |-> [bound |-> TRUE, length |-> length, curviness |-> curviness] ]

\* THREE.Mesh.clone of three@0.132.2 (index.html:57): the geometry is shared,
\* userData is copied by JSON.parse(JSON.stringify(userData)), which keeps
\* isCollidable and drops the function-valued curveFunction; the clone refers
\* to the geometry object of its source
CloneMesh(mesh) == [mesh EXCEPT !.curveFunction = NoCurveFunction]

createCurvedPlatform(cache, length, width, curviness) ==
    LET cacheKey == CacheKey(length, width, curviness)
    IN  IF cacheKey \in DOMAIN cache
        THEN [mesh |-> CloneMesh(cache[cacheKey]), cache |-> cache]
        ELSE LET mesh == BuildMesh(length, width, curviness)
             IN  [mesh |-> mesh, cache |-> cache @@ (cacheKey :> CloneMesh(mesh))]

\* a sentence: [id, text, length (0: no length field), hasCurviness, curviness]
createPlatform(cache, sentence, index) ==
    LET wordCount == IF sentence.length # 0 THEN sentence.length
                     ELSE countWords(sentence.text)
        platformLength == wordCount * unitsPerWord
        curviness == IF sentence.hasCurviness THEN sentence.curviness
                     ELSE defaultCurviness
        built == createCurvedPlatform(cache, platformLength, platformWidth, curviness)
    IN  [ platform |->
            [ name      |-> sentence.id,
              mesh      |-> built.mesh,
              sentence  |-> sentence,
              length    |-> platformLength,
              curviness |-> curviness,
              words     |-> SplitWhitespace(sentence.text),
              position  |-> [x |-> 0, y |-> 0] ],
          cache |-> built.cache ]

getPlatformYAtX(platform, x) ==
    LET f == platform.mesh.curveFunction
    IN  IF f.bound
        THEN generateCurve(x + f.length \div 2, f.length, f.curviness)
        ELSE 0

\* the next platform starts where this one ends
nextStartAfter_NoGap(platformCenterX, platformLength) ==
    platformCenterX + platformLength \div 2

\* lines 296-302: where the platform after this one starts
nextStartAfter(platformCenterX, platformLength) ==
    LET platformEndX == platformCenterX + platformLength \div 2
    IN  platformEndX + gapBetweenPlatforms

\* the next platform is placed at the height of this one
nextYAfter_Level(currentY) == currentY

\* line 305: the height of the platform after one that was built
nextYAfter(currentY) == currentY - globalDownwardSlope

\* a sentence of exactly minSentenceLength words is skipped as well
isTooShort_Inclusive(sentence) == countWords(sentence.text) <= minSentenceLength

\* line 273: the sentences createLevel skips (a missing text and an empty
\* text both count 0 words)
isTooShort(sentence) == countWords(sentence.text) < minSentenceLength

RECURSIVE LevelFrom(_, _, _, _, _, _)
LevelFrom(sentences, index, nextStartX, currentY, children, cache) ==
    IF index > Len(sentences)
    THEN [ level |-> [ children |-> children,
                       totalLength |-> nextStartX,
                       sentenceCount |-> Len(sentences) ],
           cache |-> cache ]
    ELSE IF isTooShort(sentences[index])
    THEN LevelFrom(sentences, index + 1, nextStartX, currentY, children, cache)
    ELSE LET made == createPlatform(cache, sentences[index], index)
             platformLength == made.platform.length
             platformCenterX == nextStartX + platformLength \div 2
             placed == [made.platform EXCEPT
                          !.position = [x |-> platformCenterX, y |-> currentY]]
         IN  LevelFrom(sentences, index + 1,
                       nextStartAfter(platformCenterX, platformLength),
                       nextYAfter(currentY),
                       Append(children, placed), made.cache)

createLevel(cache, sentences) == LevelFrom(sentences, 1, 0, 0, <<>>, cache)

platformLeft(platform) == platform.position.x - platform.length \div 2
platformRight(platform) == platform.position.x + platform.length \div 2

----------------------------------------------------------------------------
(* Player *)

NoPlatform == 0

\* Player.resetState (the state part)
InitialPlayerState ==
    [ position |-> [x |-> 0, y |-> 0],
      velocity |-> [x |-> 0, y |-> 0],
      isJumping |-> FALSE,
      isGrounded |-> FALSE,
      currentPlatform |-> NoPlatform,
      currentWordIndex |-> 0,
      score |-> 0,
      perfectSurfs |-> 0 ]

\* Player.resetState (the input part)
InitialInput == [left |-> FALSE, right |-> FALSE, jump |-> FALSE]

\* velocity.x *= 0.9, kept on the grid of the 0.5 steps of the key handling
Friction(vx) ==
    TruncDiv(TruncDiv(vx * 9, 10), horizontalAccel) * horizontalAccel

\* a jump whenever the key is down and no jump is under way
WantsJump_Airborne(s, in) == in.jump /\ ~s.isJumping

\* line 785
WantsJump(s, in) == in.jump /\ s.isGrounded /\ ~s.isJumping

\* a jump that leaves isGrounded as it was
processInput_StaysGrounded(s, in) ==
    LET vx == IF in.left THEN Max(s.velocity.x - horizontalAccel, -playerSpeed)
              ELSE IF in.right THEN Min(s.velocity.x + horizontalAccel, playerSpeed)
              ELSE Friction(s.velocity.x)
    IN  IF WantsJump(s, in)
        THEN [s EXCEPT !.velocity = [x |-> vx, y |-> jumpForce],
                       !.isJumping = TRUE]
        ELSE [s EXCEPT !.velocity.x = vx]

\* Player.processInput
processInput(s, in) ==
    LET vx == IF in.left THEN Max(s.velocity.x - horizontalAccel, -playerSpeed)
              ELSE IF in.right THEN Min(s.velocity.x + horizontalAccel, playerSpeed)
              ELSE Friction(s.velocity.x)
    IN  IF WantsJump(s, in)
        THEN [s EXCEPT !.velocity = [x |-> vx, y |-> jumpForce],
                       !.isJumping = TRUE,
                       !.isGrounded = FALSE]
        ELSE [s EXCEPT !.velocity.x = vx]

applyPhysics(s, deltaTime) ==
    LET vy == s.velocity.y - gravity
    IN  [s EXCEPT
           !.position = [x |-> @.x + TruncDiv(s.velocity.x * deltaTime, 1000),
                         y |-> @.y + TruncDiv(vy * deltaTime, 1000)],
           !.velocity.y = Max(vy, -terminalSpeed)]

\* absolute height of a platform's surface at the player's x, as the
\* collision code computes it (lines 844-846)
absolutePlatformY(platform, playerX) ==
    platform.position.y + getPlatformYAtX(platform, playerX - platform.position.x)

\* the last platform under the player wins, whatever its height
Qualifies_LastMatch(platform, playerX, playerY, found, platformY) ==
    /\ playerX >= platformLeft(platform)
    /\ playerX <= platformRight(platform)
    /\ absolutePlatformY(platform, playerX) <= playerY + playerRadius

\* lines 842 and 849: the platform takes over as the candidate
Qualifies(platform, playerX, playerY, found, platformY) ==
    /\ playerX >= platformLeft(platform)
    /\ playerX <= platformRight(platform)
    /\ (found = NoPlatform \/ absolutePlatformY(platform, playerX) > platformY)
    /\ absolutePlatformY(platform, playerX) <= playerY + playerRadius

\* the forEach of lines 833-854; found = NoPlatform stands for platformY = -Infinity
RECURSIVE SelectFrom(_, _, _, _, _, _)
SelectFrom(children, i, playerX, playerY, found, platformY) ==
    IF i > Len(children) THEN [platform |-> found, platformY |-> platformY]
    ELSE IF children[i].length # 0
            /\ Qualifies(children[i], playerX, playerY, found, platformY)
    THEN SelectFrom(children, i + 1, playerX, playerY, i,
                    absolutePlatformY(children[i], playerX))
    ELSE SelectFrom(children, i + 1, playerX, playerY, found, platformY)

SelectPlatform(children, playerX, playerY) ==
    SelectFrom(children, 1, playerX, playerY, NoPlatform, 0)

\* the word index survives a change of platform
onPlatformChange_KeepIndex(s, newPlatform) == s

\* Player.onPlatformChange: the state after it
onPlatformChange(s, newPlatform) ==
    IF newPlatform = NoPlatform THEN s ELSE [s EXCEPT !.currentWordIndex = 0]

\* Player.onPlatformChange: the sentences it hands to AudioManager.playSentence
sentencesPlayedOnChange(children, newPlatform) ==
    IF newPlatform = NoPlatform THEN <<>>
    ELSE <<children[newPlatform].sentence.id>>

\* landing from any height above the selected platform
CanLand_AnyDistance(s, sel) ==
    /\ sel.platform # NoPlatform
    /\ s.velocity.y < 0

\* lines 857-861
CanLand(s, sel) ==
    /\ sel.platform # NoPlatform
    /\ s.velocity.y < 0
    /\ s.position.y - sel.platformY <= playerRadius

\* lines 875-879
WalkedOff(s, sel) ==
    /\ ~(sel.platform # NoPlatform /\ s.velocity.y < 0)
    /\ sel.platform = NoPlatform
    /\ s.isGrounded

\* Player.checkPlatformCollisions on a level with the given children:
\* the state after it and what it did
checkPlatformCollisions(s, children) ==
    LET isFalling == s.velocity.y < 0
        s1  == IF isFalling THEN [s EXCEPT !.isGrounded = FALSE] ELSE s
        sel == SelectPlatform(children, s.position.x, s.position.y)
        changed == s1.currentPlatform # sel.platform
    IN  IF CanLand(s1, sel)
        THEN [ state |->
                 [ (IF changed THEN onPlatformChange(s1, sel.platform) ELSE s1)
                   EXCEPT !.position.y = sel.platformY + playerRadius,
                          !.velocity.y = 0,
                          !.isGrounded = TRUE,
                          !.isJumping = FALSE,
                          !.currentPlatform = sel.platform ],
               selected |-> sel.platform, platformY |-> sel.platformY,
               landed |-> TRUE, changed |-> changed, cleared |-> FALSE,
               played |-> IF changed
                          THEN sentencesPlayedOnChange(children, sel.platform)
                          ELSE <<>> ]
        ELSE IF WalkedOff(s1, sel)
        THEN [ state |-> [s1 EXCEPT !.isGrounded = FALSE,
                                    !.currentPlatform = NoPlatform],
               selected |-> sel.platform, platformY |-> sel.platformY,
               landed |-> FALSE, changed |-> FALSE, cleared |-> TRUE,
               played |-> <<>> ]
        ELSE [ state |-> s1,
               selected |-> sel.platform, platformY |-> sel.platformY,
               landed |-> FALSE, changed |-> FALSE, cleared |-> FALSE,
               played |-> <<>> ]

\* lines 932-938, for the platform the player is on
relativeOffset(s, platform) == s.position.x - platformLeft(platform)

wordIndexAt(s, platform) ==
    Min((relativeOffset(s, platform) * Len(platform.words)) \div platform.length,
        Len(platform.words) - 1)

\* relativePos >= 0.95
NearEnd(s, platform) == relativeOffset(s, platform) * 100 >= 95 * platform.length

\* any change of word counts as a crossing
CrossesWord_AnyChange(s, platform) == wordIndexAt(s, platform) # s.currentWordIndex

\* line 941
CrossesWord(s, platform) == wordIndexAt(s, platform) > s.currentWordIndex

\* the bonus is worth a single word
awardPerfectSurf_NoMultiplier(s) ==
    [s EXCEPT !.score = @ + scorePerWord,
              !.perfectSurfs = @ + 1]

\* Player.awardPerfectSurf
awardPerfectSurf(s) ==
    [s EXCEPT !.score = @ + scorePerWord * bonusMultiplier,
              !.perfectSurfs = @ + 1]

\* every word the index advances by is paid
checkWordSurfing_PerWord(s, children) ==
    IF s.currentPlatform = NoPlatform
    THEN [state |-> s, wordIndex |-> -1, crossed |-> FALSE, bonus |-> FALSE]
    ELSE LET platform  == children[s.currentPlatform]
             wordIndex == wordIndexAt(s, platform)
             crossed   == CrossesWord(s, platform)
             s1 == IF crossed
                   THEN [s EXCEPT !.score = @ + scorePerWord * (wordIndex - s.currentWordIndex),
                                  !.currentWordIndex = wordIndex]
                   ELSE s
             bonus == /\ wordIndex = Len(platform.words) - 1
                      /\ NearEnd(s, platform)
                      /\ s1.currentWordIndex = Len(platform.words) - 1
             s2 == IF bonus
                   THEN [awardPerfectSurf(s1) EXCEPT
                            !.currentWordIndex = Len(platform.words)]
                   ELSE s1
         IN  [state |-> s2, wordIndex |-> wordIndex, crossed |-> crossed,
              bonus |-> bonus]

\* Player.checkWordSurfing: the state after it and what it awarded
checkWordSurfing(s, children) ==
    IF s.currentPlatform = NoPlatform
    THEN [state |-> s, wordIndex |-> -1, crossed |-> FALSE, bonus |-> FALSE]
    ELSE LET platform  == children[s.currentPlatform]
             wordIndex == wordIndexAt(s, platform)
             crossed   == CrossesWord(s, platform)
             s1 == IF crossed
                   THEN [s EXCEPT !.score = @ + scorePerWord,
                                  !.currentWordIndex = wordIndex]
                   ELSE s
             bonus == /\ wordIndex = Len(platform.words) - 1
                      /\ NearEnd(s, platform)
                      /\ s1.currentWordIndex = Len(platform.words) - 1
             s2 == IF bonus
                   THEN [awardPerfectSurf(s1) EXCEPT
                            !.currentWordIndex = Len(platform.words)]
                   ELSE s1
         IN  [state |-> s2, wordIndex |-> wordIndex, crossed |-> crossed,
              bonus |-> bonus]

----------------------------------------------------------------------------
(* Articles: the sentence lists ContentPipeline.getAllSentences can hand    *)
(* to Game.createLevel                                                      *)

RECURSIVE WordsText(_)
\* a text of n one-letter words separated by single blanks
WordsText(n) ==
    IF n = 0 THEN <<>>
    ELSE IF n = 1 THEN <<"a">>
    ELSE WordsText(n - 1) \o <<" ", "a">>

\* a sentence as structureContent builds it (length = countWords(text)),
\* with the curviness the tone stage attached
Sentence(id, text, curviness) ==
    [ id |-> id, text |-> text, length |-> countWords(text),
      hasCurviness |-> TRUE, curviness |-> curviness ]

Articles ==
    { << Sentence("s0", WordsText(3), 0), Sentence("s1", WordsText(3), 0) >>,
      << Sentence("s0", WordsText(3), 950), Sentence("s1", WordsText(5), 1000) >>,
      << Sentence("s0", WordsText(3), 500), Sentence("s1", WordsText(2), 700),
         Sentence("s2", WordsText(3), 504) >> }

\* the frame times the game loop can see, in milliseconds
DeltaTimes == {100, 250}

\* the key codes with a case in handleKeyDown / handleKeyUp that the tick reads
Keys == {"left", "right", "jump"}

----------------------------------------------------------------------------
(* Game *)

NoLevel == [children |-> <<>>, totalLength |-> 0, sentenceCount |-> 0]

\* what is recorded of a tick: the player state it started from, the
\* intermediate values of checkPlatformCollisions and the calls it made
NoTick ==
    [ ran |-> FALSE,
      before |-> [ isGrounded |-> FALSE, isJumping |-> FALSE,
                   currentPlatform |-> NoPlatform, currentWordIndex |-> 0 ],
      jumped |-> FALSE, fallingAtCheck |-> FALSE, yAtCheck |-> 0,
      selected |-> NoPlatform, platformY |-> 0, landed |-> FALSE,
      cleared |-> FALSE, indexAfterCollision |-> 0,
      sentencesPlayed |-> <<>>, wordIndex |-> -1, crossed |-> FALSE,
      bonus |-> FALSE, endLevelCalls |-> 0, whilePaused |-> FALSE,
      awaitsAudio |-> FALSE ]

\* awards of the current run: bonuses per platform, the word indices
\* awarded since the player last changed platform, and the number of
\* word-crossed awards of the run
NoHistory ==
    [ bonuses |-> <<>>, enteredAtStart |-> FALSE, awarded |-> <<>>, entryScore |-> 0,
      crossings |-> 0 ]

NoProbe == [sentences |-> <<>>, built |-> FALSE, level |-> NoLevel]

\* no content: what a stage hands on before it has produced anything
NoContent == [hasText |-> FALSE, text |-> <<>>, hasParagraphs |-> FALSE, sentences |-> <<>>]

\* ContentPipeline before processUrl is called
NoPipeline ==
    [ status |-> "idle", running |-> {}, done |-> <<>>, fellBack |-> {},
      articleContent |-> NoContent, structuredContent |-> NoContent,
      hasArticleData |-> FALSE, articleData |-> NoContent,
      merged |-> FALSE, curvinessData |-> <<>> ]

\* AudioManager after init with CONFIG.audio.enabled false: narration is
\* switched off.  A sentence is known to the manager by its id and its text;
\* audioQueue holds sentences, audioCache maps the key of a sentence (its id)
\* to the text its buffer was generated from; inFlight is the bag of
\* generateAudio calls that have not settled, each with the sentence it is
\* for and the caller that issued it; failed are the ids whose generation was
\* rejected; played is the last playback: the text of the sentence
\* playSentence was called for and the text of the buffer it played; calls
\* counts the calls made to the manager on its own
NoAudio ==
    [ enabled |-> FALSE, audioQueue |-> <<>>, audioCache |-> <<>>,
      inFlight |-> EmptyBag, failed |-> {}, played |-> <<>>, calls |-> 0 ]

\* number of sentences preloadSentences takes from the list it is given
preloadCount == 2

\* what AudioManager reads of a sentence
Narrated(sentence) == [id |-> sentence.id, text |-> sentence.text]

\* what AudioManager reads of a sentence list
NarratedOf(sentences) == [i \in 1..Len(sentences) |-> Narrated(sentences[i])]

\* the generateAudio(sentence.text) call of a caller
Request(sentence, by) == [id |-> sentence.id, text |-> sentence.text, by |-> by]

RECURSIVE processAudioQueue(_)
\* AudioManager.processAudioQueue up to its await: sentences already cached
\* are skipped, the first one that is not gets a generateAudio request
processAudioQueue(a) ==
    IF ~a.enabled \/ a.audioQueue = <<>> THEN a
    ELSE LET sentence == Head(a.audioQueue)
             shifted == [a EXCEPT !.audioQueue = Tail(@)]
         IN  IF sentence.id \in DOMAIN a.audioCache
             THEN IF shifted.audioQueue # <<>> THEN processAudioQueue(shifted)
                  ELSE shifted
             ELSE [shifted EXCEPT
                      !.inFlight = @ (+) SetToBag({Request(sentence, "queue")})]

\* AudioManager.preloadSentences
preloadSentences(a, sentences) ==
    IF ~a.enabled \/ sentences = <<>> THEN a
    ELSE processAudioQueue(
             [a EXCEPT !.audioQueue =
                 @ \o SubSeq(sentences, 1, Min(preloadCount, Len(sentences)))])

\* the buffer cached under the key of the sentence is played
playCached(a, sentence) ==
    [a EXCEPT !.played = << [ sentence |-> sentence.text,
                              buffer |-> a.audioCache[sentence.id] ] >>]

\* the caller waits for the request playSentence had to issue
playSentence_Awaited(a, sentence) ==
    IF ~a.enabled THEN [audio |-> a, awaited |-> FALSE]
    ELSE IF sentence.id \in DOMAIN a.audioCache
    THEN [audio |-> playCached(a, sentence), awaited |-> FALSE]
    ELSE [ audio |-> [a EXCEPT !.inFlight = @ (+) SetToBag({Request(sentence, "play")})],
           awaited |-> TRUE ]

\* AudioManager.playSentence up to its await, as Player.onPlatformChange
\* calls it (line 912): an async function whose promise is dropped, so the
\* caller goes on at once and sees no rejection
playSentence(a, sentence) ==
    IF ~a.enabled THEN [audio |-> a, awaited |-> FALSE]
    ELSE IF sentence.id \in DOMAIN a.audioCache
    THEN [audio |-> playCached(a, sentence), awaited |-> FALSE]
    ELSE [ audio |-> [a EXCEPT !.inFlight = @ (+) SetToBag({Request(sentence, "play")})],
           awaited |-> FALSE ]

\* the playSentence calls of one tick (at most one)
narrate(a, sentences) ==
    IF sentences = <<>> THEN [audio |-> a, awaited |-> FALSE]
    ELSE playSentence(a, sentences[1])

\* this.audioCache[key] = buffer
Cached(cache, request) ==
    [ key \in DOMAIN cache \cup {request.id} |->
        IF key = request.id THEN request.text ELSE cache[key] ]

afterGeneration_StopsOnError(a, request, succeeded) ==
    LET settled == [a EXCEPT !.inFlight = @ (-) SetToBag({request}),
                             !.audioCache = IF succeeded THEN Cached(@, request) ELSE @,
                             !.failed = IF succeeded THEN @ ELSE @ \cup {request.id}]
    IN  IF request.by = "queue"
        THEN IF succeeded /\ settled.audioQueue # <<>>
             THEN processAudioQueue(settled) ELSE settled
        ELSE IF succeeded THEN playCached(settled, Narrated(request)) ELSE settled

\* a generateAudio request settles and the function that awaited it goes on:
\* processAudioQueue caches the buffer or logs the error and takes the next
\* sentence, playSentence caches the buffer and plays what the cache holds
\* for the sentence, or returns
afterGeneration(a, request, succeeded) ==
    LET settled == [a EXCEPT !.inFlight = @ (-) SetToBag({request}),
                             !.audioCache = IF succeeded THEN Cached(@, request) ELSE @,
                             !.failed = IF succeeded THEN @ ELSE @ \cup {request.id}]
    IN  IF request.by = "queue"
        THEN IF settled.audioQueue # <<>> THEN processAudioQueue(settled) ELSE settled
        ELSE IF succeeded THEN playCached(settled, Narrated(request)) ELSE settled

\* Game.state as declared and as Game.reset rebuilds it; besides the code's
\* fields: pending counts the startGame calls still awaiting processUrl, stale
\* those among them that a reset has overtaken, startedBy says which kind
\* of pipeline result set up the running level, runs and keyEvents count
\* what the bounds limit
InitialGameState ==
    [ isLoading |-> FALSE, isPlaying |-> FALSE, isPaused |-> FALSE,
      hasLevel |-> FALSE, level |-> NoLevel,
      pending |-> 0, stale |-> 0, startedBy |-> "none",
      runs |-> 0, keyEvents |-> 0 ]

\* what Game.init leaves outside Game.state: levels and players count the
\* level objects and player meshes attached to Game.scene, playerObject says
\* whether Player.object is set, loops counts the animate callbacks requested
\* and not yet run, timers the error timeouts of startGame not yet fired;
\* the start screen is shown (lines 44-45)
NoSession ==
    [ levels |-> 0, players |-> 0, playerObject |-> FALSE,
      loops |-> 0, timers |-> 0,
      startScreen |-> TRUE, loadingScreen |-> FALSE, endScreen |-> FALSE ]

Init ==
    /\ geometryCache = <<>>
    /\ game = InitialGameState
    /\ player = InitialPlayerState
    /\ input = InitialInput
    /\ tick = NoTick
    /\ hist = NoHistory
    /\ probe = NoProbe
    /\ pipeline = NoPipeline
    /\ audio = NoAudio
    /\ session = NoSession

\* Game.startGame up to its await, for the first calls up to a limit
startGame_Unguarded(limit) ==
    /\ game.runs < limit
    /\ game' = [game EXCEPT !.isLoading = TRUE, !.pending = @ + 1, !.runs = @ + 1]
    /\ session' = [session EXCEPT !.startScreen = FALSE, !.loadingScreen = TRUE]
    /\ UNCHANGED <<geometryCache, player, input, tick, hist, probe, pipeline, audio>>

\* Game.startGame up to its first await
startGame(limit) ==
    /\ game.runs < limit
    /\ IF game.isLoading \/ game.isPlaying
       THEN UNCHANGED <<game, session>>
       ELSE /\ game' = [game EXCEPT !.isLoading = TRUE, !.pending = @ + 1, !.runs = @ + 1]
            /\ session' = [session EXCEPT !.startScreen = FALSE, !.loadingScreen = TRUE]
    /\ UNCHANGED <<geometryCache, player, input, tick, hist, probe, pipeline, audio>>

StartGame == startGame(MaxRuns)

\* Game.positionPlayerAtStart
positionPlayerAtStart(s, level) ==
    IF level.children = <<>> THEN s
    ELSE LET firstPlatform == level.children[1]
         IN  [s EXCEPT !.position =
                [x |-> platformLeft(firstPlatform) + startInsetX,
                 y |-> firstPlatform.position.y + startLiftY]]

\* Game.startGame after ContentPipeline.processUrl resolved: createLevel
\* (with its preloadSentences call), Player.init, positionPlayerAtStart,
\* startGameLoop
PipelineResolved(sentences, late) ==
    /\ IF late THEN game.stale > 0 ELSE game.pending > game.stale
    /\ LET made == createLevel(geometryCache, sentences)
       IN  /\ geometryCache' = made.cache
           /\ game' = [game EXCEPT !.isLoading = FALSE, !.isPlaying = TRUE,
                                   !.hasLevel = TRUE, !.level = made.level,
                                   !.pending = @ - 1,
                                   !.stale = IF late THEN @ - 1 ELSE @,
                                   !.startedBy = IF late THEN "late" ELSE "fresh",
                                   !.keyEvents = 0]
           /\ player' = positionPlayerAtStart(InitialPlayerState, made.level)
           /\ hist' = [NoHistory EXCEPT
                         !.bonuses = [i \in 1..Len(made.level.children) |-> 0]]
    /\ input' = InitialInput
    /\ tick' = NoTick
    /\ audio' = preloadSentences(audio, NarratedOf(sentences))
    \* scene.add(level), Player.init: scene.add(this.object), startGameLoop:
    \* requestAnimationFrame(animate)
    /\ session' = [session EXCEPT !.levels = @ + 1,
                                  !.players = @ + 1,
                                  !.playerObject = TRUE,
                                  !.loops = @ + 1,
                                  !.loadingScreen = FALSE]
    /\ UNCHANGED <<probe, pipeline>>

\* Player.handleKeyDown for the codes of key, among the first key events up
\* to a limit
keyDown(key, limit) ==
    /\ game.isPlaying
    /\ game.keyEvents < limit
    /\ ~input[key]
    /\ input' = [input EXCEPT ![key] = TRUE]
    /\ game' = [game EXCEPT !.keyEvents = @ + 1]
    /\ UNCHANGED <<geometryCache, player, tick, hist, probe, pipeline, audio, session>>

handleKeyDown(key) == keyDown(key, MaxKeyEvents)

\* Player.handleKeyUp for the codes of key, among the first key events up to
\* a limit
keyUp(key, limit) ==
    /\ game.isPlaying
    /\ game.keyEvents < limit
    /\ input[key]
    /\ input' = [input EXCEPT ![key] = FALSE]
    /\ game' = [game EXCEPT !.keyEvents = @ + 1]
    /\ UNCHANGED <<geometryCache, player, tick, hist, probe, pipeline, audio, session>>

handleKeyUp(key) == keyUp(key, MaxKeyEvents)

\* Game.pause, called by the Escape key handler of main.js
pause ==
    /\ game.keyEvents < MaxKeyEvents
    /\ ~game.isPaused
    /\ game.isPlaying
    /\ game' = [game EXCEPT !.isPaused = TRUE, !.keyEvents = @ + 1]
    /\ UNCHANGED <<geometryCache, player, input, tick, hist, probe, pipeline, audio, session>>

\* Game.resume, called by the Escape key handler of main.js
resume ==
    /\ game.keyEvents < MaxKeyEvents
    /\ game.isPaused
    /\ game.isPlaying
    /\ game' = [game EXCEPT !.isPaused = FALSE, !.keyEvents = @ + 1]
    /\ UNCHANGED <<geometryCache, player, input, tick, hist, probe, pipeline, audio, session>>

\* Game.reset, called by the Ctrl+R key handler of main.js: the state object
\* is replaced; a processUrl still awaited by startGame is left to finish
reset ==
    /\ game.keyEvents < MaxKeyEvents
    /\ game' = [InitialGameState EXCEPT !.pending = game.pending,
                                        !.stale = game.pending,
                                        !.runs = game.runs,
                                        !.keyEvents = game.keyEvents + 1]
    /\ tick' = NoTick
    \* only the level Game.state refers to and the mesh Player.object refers
    \* to are removed from the scene
    /\ session' = [session EXCEPT
                     !.levels = IF game.hasLevel THEN @ - 1 ELSE @,
                     !.players = IF session.playerObject THEN @ - 1 ELSE @,
                     !.playerObject = FALSE,
                     !.endScreen = FALSE,
                     !.startScreen = TRUE]
    /\ UNCHANGED <<geometryCache, player, input, hist, probe, pipeline, audio>>

\* Game.checkLevelCompletion: how often it calls endLevel
endLevelCalls(s, level) ==
    (IF s.position.x >= level.totalLength THEN 1 ELSE 0)
    + (IF s.position.y < -fallLimit THEN 1 ELSE 0)

NextHistory(h, collided, surfed) ==
    LET p  == surfed.state.currentPlatform
        h1 == IF collided.changed
              THEN [h EXCEPT !.enteredAtStart = (surfed.wordIndex = 0),
                             !.awarded = <<>>,
                             !.entryScore = collided.state.score]
              ELSE h
        h2 == IF surfed.crossed
              THEN [h1 EXCEPT !.awarded = Append(@, surfed.wordIndex),
                              !.crossings = @ + 1]
              ELSE h1
    IN  IF surfed.bonus THEN [h2 EXCEPT !.bonuses[p] = @ + 1] ELSE h2

\* Player.update(deltaTime, level) followed by Game.checkLevelCompletion:
\* the player state after the tick and the record of the tick
Update(s, in, deltaTime, level) ==
    LET moved    == applyPhysics(processInput(s, in), deltaTime)
        collided == checkPlatformCollisions(moved, level.children)
        surfed   == checkWordSurfing(collided.state, level.children)
    IN  [ state |-> surfed.state,
          collided |-> collided,
          surfed |-> surfed,
          tick |->
            [ ran |-> TRUE,
              before |-> [ isGrounded |-> s.isGrounded,
                           isJumping |-> s.isJumping,
                           currentPlatform |-> s.currentPlatform,
                           currentWordIndex |-> s.currentWordIndex ],
              jumped |-> WantsJump(s, in),
              fallingAtCheck |-> moved.velocity.y < 0,
              yAtCheck |-> moved.position.y,
              selected |-> collided.selected,
              platformY |-> collided.platformY,
              landed |-> collided.landed,
              cleared |-> collided.cleared,
              indexAfterCollision |-> collided.state.currentWordIndex,
              sentencesPlayed |-> collided.played,
              wordIndex |-> surfed.wordIndex,
              crossed |-> surfed.crossed,
              bonus |-> surfed.bonus,
              endLevelCalls |-> endLevelCalls(surfed.state, level),
              whilePaused |-> FALSE,
              awaitsAudio |-> FALSE ] ]

\* newPlatform.userData.sentence of the platforms named
SentencesWithIds(level, ids) ==
    [ i \in 1..Len(ids) |->
        Narrated(level.children[CHOOSE k \in DOMAIN level.children :
                     level.children[k].sentence.id = ids[i]].sentence) ]

\* one animate callback while playing: Game.update(deltaTime), and the next
\* callback is requested
Frame(deltaTime) ==
    /\ session.loops > 0
    /\ game.isPlaying
    /\ \E u \in {Update(player, input, Min(deltaTime, maxDelta), game.level)} :
         \E narration \in {narrate(audio, SentencesWithIds(game.level,
                                                            u.tick.sentencesPlayed))} :
           \* a tick that waits inside onPlatformChange stops before
           \* checkWordSurfing
           /\ player' = IF narration.awaited THEN u.collided.state ELSE u.state
           /\ tick' = [u.tick EXCEPT !.whilePaused = game.isPaused,
                                     !.awaitsAudio = narration.awaited]
           /\ hist' = NextHistory(hist, u.collided, u.surfed)
           /\ game' = IF u.tick.endLevelCalls > 0
                      THEN [game EXCEPT !.isPlaying = FALSE]
                      ELSE game
           /\ audio' = narration.audio
           \* endLevel shows the end screen
           /\ session' = IF u.tick.endLevelCalls > 0
                         THEN [session EXCEPT !.endScreen = TRUE]
                         ELSE session
    /\ UNCHANGED <<geometryCache, input, probe, pipeline>>

Next ==
    \/ StartGame
    \/ \E sentences \in Articles : PipelineResolved(sentences, FALSE)
    \/ \E key \in Keys : handleKeyDown(key)
    \/ \E key \in Keys : handleKeyUp(key)
    \/ \E deltaTime \in DeltaTimes : Frame(deltaTime)

\* a game played without the shortcuts of main.js
Spec == Init /\ [][Next]_vars

\* the same with the shortcuts of main.js (Escape: pause / resume, Ctrl+R:
\* reset), where a reset can overtake a startGame that awaits its pipeline
LifecycleNext ==
    \/ Next
    \/ \E sentences \in Articles : PipelineResolved(sentences, TRUE)
    \/ pause
    \/ resume
    \/ reset

LifecycleSpec == Init /\ [][LifecycleNext]_vars

----------------------------------------------------------------------------
(* A session of several runs: starts that fail, runs that end, play again,
   reset *)

\* the catch branch of Game.startGame after ContentPipeline.processUrl
\* rejected: the error timeout is set and isLoading cleared
PipelineRejected(late) ==
    /\ IF late THEN game.stale > 0 ELSE game.pending > game.stale
    /\ game' = [game EXCEPT !.isLoading = FALSE,
                            !.pending = @ - 1,
                            !.stale = IF late THEN @ - 1 ELSE @]
    /\ session' = [session EXCEPT !.timers = @ + 1]
    /\ UNCHANGED <<geometryCache, player, input, tick, hist, probe, pipeline, audio>>

\* the timeout callback of the catch branch, a second later
errorTimerFires ==
    /\ session.timers > 0
    /\ session' = [session EXCEPT !.timers = @ - 1,
                                  !.loadingScreen = FALSE,
                                  !.startScreen = TRUE]
    /\ UNCHANGED <<geometryCache, game, player, input, tick, hist, probe, pipeline, audio>>

\* the click handler of the play-again button on the end screen
playAgain ==
    /\ session.endScreen
    /\ session' = [session EXCEPT !.endScreen = FALSE, !.startScreen = TRUE]
    /\ UNCHANGED <<geometryCache, game, player, input, tick, hist, probe, pipeline, audio>>

\* an animate callback that finds the game not playing returns without
\* requesting the next one
animateStops ==
    /\ session.loops > 0
    /\ ~game.isPlaying
    /\ session' = [session EXCEPT !.loops = @ - 1]
    /\ UNCHANGED <<geometryCache, game, player, input, tick, hist, probe, pipeline, audio>>

SessionArticle == << Sentence("s0", WordsText(3), 0) >>

SessionNext ==
    \/ startGame(MaxStarts)
    \/ PipelineResolved(SessionArticle, FALSE)
    \/ PipelineResolved(SessionArticle, TRUE)
    \/ PipelineRejected(FALSE)
    \/ PipelineRejected(TRUE)
    \/ errorTimerFires
    \/ \E key \in {"right"} : handleKeyDown(key)
    \/ \E key \in {"right"} : handleKeyUp(key)
    \/ \E deltaTime \in {250} : Frame(deltaTime)
    \/ playAgain
    \/ animateStops
    \/ reset

SessionSpec == Init /\ [][SessionNext]_vars

----------------------------------------------------------------------------
(* One run on a level of two platforms in which the player can turn back
   and forth, from the moment startGame awaits its pipeline *)

ReturnArticle ==
    << Sentence("s0", WordsText(3), 950), Sentence("s1", WordsText(5), 1000) >>

ReturnInit ==
    /\ geometryCache = <<>>
    /\ game = [InitialGameState EXCEPT !.isLoading = TRUE, !.pending = 1, !.runs = 1]
    /\ player = InitialPlayerState
    /\ input = InitialInput
    /\ tick = NoTick
    /\ hist = NoHistory
    /\ probe = NoProbe
    /\ pipeline = NoPipeline
    /\ audio = NoAudio
    /\ session = [NoSession EXCEPT !.startScreen = FALSE, !.loadingScreen = TRUE]

ReturnNext ==
    \/ PipelineResolved(ReturnArticle, FALSE)
    \/ \E key \in {"left", "right"} : keyDown(key, MaxTurns)
    \/ \E key \in {"left", "right"} : keyUp(key, MaxTurns)
    \/ \E deltaTime \in {100} : Frame(deltaTime)

ReturnSpec == ReturnInit /\ [][ReturnNext]_vars

----------------------------------------------------------------------------
(* One run on a level of six platforms, from the moment startGame awaits
   its pipeline *)

DeepArticle ==
    << Sentence("s0", WordsText(3), 0), Sentence("s1", WordsText(3), 100),
       Sentence("s2", WordsText(3), 200), Sentence("s3", WordsText(3), 300),
       Sentence("s4", WordsText(3), 400), Sentence("s5", WordsText(3), 500) >>

DeepInit ==
    /\ geometryCache = <<>>
    /\ game = [InitialGameState EXCEPT !.isLoading = TRUE, !.pending = 1, !.runs = 1]
    /\ player = InitialPlayerState
    /\ input = InitialInput
    /\ tick = NoTick
    /\ hist = NoHistory
    /\ probe = NoProbe
    /\ pipeline = NoPipeline
    /\ audio = NoAudio
    /\ session = [NoSession EXCEPT !.startScreen = FALSE, !.loadingScreen = TRUE]

DeepNext ==
    \/ PipelineResolved(DeepArticle, FALSE)
    \/ \E key \in {"right", "jump"} : handleKeyDown(key)
    \/ \E key \in {"right", "jump"} : handleKeyUp(key)
    \/ \E deltaTime \in {100} : Frame(deltaTime)

DeepSpec == DeepInit /\ [][DeepNext]_vars

----------------------------------------------------------------------------
(* GeometryGenerator.createLevel on its own, over sentence lists *)

SentencePool ==
    { Sentence("a", WordsText(3), 0),
      Sentence("b", WordsText(1), 500),
      Sentence("c", WordsText(4), 504),
      Sentence("d", WordsText(3), 4),
      Sentence("e", WordsText(2), 1000),
      \* missing or empty text, and text of blanks only
      Sentence("f", <<>>, 500),
      Sentence("g", <<" ", " ">>, 500),
      \* whitespace around the text
      Sentence("h", <<" ">> \o WordsText(3) \o <<" ">>, 500),
      Sentence("i", <<" ">> \o WordsText(2), 500),
      \* a length field that is not the word count, and no length field
      [Sentence("j", WordsText(3), 500) EXCEPT !.length = 5],
      [Sentence("k", WordsText(4), 300) EXCEPT !.length = 0] }

SentenceLists == UNION { [1..n -> SentencePool] : n \in 0..MaxSentences }

LevelInit ==
    /\ geometryCache = <<>>
    /\ game = InitialGameState
    /\ player = InitialPlayerState
    /\ input = InitialInput
    /\ tick = NoTick
    /\ hist = NoHistory
    /\ \E sentences \in SentenceLists :
           probe = [sentences |-> sentences, built |-> FALSE, level |-> NoLevel]
    /\ pipeline = NoPipeline
    /\ audio = NoAudio
    /\ session = NoSession

BuildLevel ==
    /\ ~probe.built
    /\ LET made == createLevel(geometryCache, probe.sentences)
       IN  /\ probe' = [probe EXCEPT !.built = TRUE, !.level = made.level]
           /\ geometryCache' = made.cache
    /\ UNCHANGED <<game, player, input, tick, hist, pipeline, audio, session>>

LevelNext == BuildLevel

LevelSpec == LevelInit /\ [][LevelNext]_vars

----------------------------------------------------------------------------
(* Player.checkPlatformCollisions on its own, over levels whose platforms   *)
(* may lie above one another: Player.update takes any level                 *)

\* a platform as createPlatform builds it, put at (x, y)
PlatformAt(id, wordCount, curviness, x, y) ==
    [ createPlatform(<<>>, Sentence(id, WordsText(wordCount), curviness), 0).platform
        EXCEPT !.position = [x |-> x, y |-> y] ]

\* the same platform with a surface served from the geometry cache
CachedPlatformAt(id, wordCount, curviness, x, y) ==
    [ PlatformAt(id, wordCount, curviness, x, y)
        EXCEPT !.mesh = CloneMesh(@) ]

PlatformPool ==
    { PlatformAt("p", 3, 0, 3000, 0),
      PlatformAt("q", 3, 0, 3000, 0),
      CachedPlatformAt("r", 3, 0, 3000, -5000),
      PlatformAt("s", 4, 500, 4000, 2000) }

StackedLevels ==
    UNION { { l \in [1..n -> PlatformPool] :
                \A i, j \in 1..n : i # j => l[i] # l[j] } :
            n \in 0..MaxStacked }

PlayerXs == {-1000, 1000, 3000, 7000}
PlayerYs == {-6000, -2000, 0, 1500, 3000, 8000}
PlayerVys == {-500, 0, 7500}

SelectInit ==
    /\ geometryCache = <<>>
    /\ \E children \in StackedLevels :
           game = [ InitialGameState EXCEPT
                      !.isPlaying = TRUE,
                      !.hasLevel = TRUE,
                      !.level = [ children |-> children, totalLength |-> 0,
                                  sentenceCount |-> Len(children) ],
                      !.startedBy = "fresh",
                      !.runs = 1 ]
    /\ \E x \in PlayerXs, y \in PlayerYs, vy \in PlayerVys :
           player = [InitialPlayerState EXCEPT !.position = [x |-> x, y |-> y],
                                               !.velocity.y = vy]
    /\ input = InitialInput
    /\ tick = NoTick
    /\ hist = NoHistory
    /\ probe = NoProbe
    /\ pipeline = NoPipeline
    /\ audio = NoAudio
    /\ session = NoSession

\* Player.checkPlatformCollisions(level) applied to the player as it stands
CollisionCheck ==
    /\ ~tick.ran
    /\ \E c \in {checkPlatformCollisions(player, game.level.children)} :
           /\ player' = c.state
           /\ tick' = [NoTick EXCEPT
                         !.ran = TRUE,
                         !.before = [ isGrounded |-> player.isGrounded,
                                      isJumping |-> player.isJumping,
                                      currentPlatform |-> player.currentPlatform,
                                      currentWordIndex |-> player.currentWordIndex ],
                         !.fallingAtCheck = player.velocity.y < 0,
                         !.yAtCheck = player.position.y,
                         !.selected = c.selected,
                         !.platformY = c.platformY,
                         !.landed = c.landed,
                         !.cleared = c.cleared,
                         !.indexAfterCollision = c.state.currentWordIndex,
                         !.sentencesPlayed = c.played]
    /\ UNCHANGED <<geometryCache, game, input, hist, probe, pipeline, audio, session>>

SelectNext == CollisionCheck

SelectSpec == SelectInit /\ [][SelectNext]_vars

----------------------------------------------------------------------------
(* Narration.  AudioManager.init with CONFIG.audio.enabled true (the value  *)
(* of the configuration file), the requests to the narration service        *)
(* settling at any time or never                                            *)

\* AudioManager on its own, before any call
AudioInit ==
    /\ geometryCache = <<>>
    /\ game = InitialGameState
    /\ player = InitialPlayerState
    /\ input = InitialInput
    /\ tick = NoTick
    /\ hist = NoHistory
    /\ probe = NoProbe
    /\ pipeline = NoPipeline
    /\ audio = [NoAudio EXCEPT !.enabled = TRUE]
    /\ session = NoSession

\* one game with narration: Game.startGame has been called and awaits its
\* pipeline
NarratedInit ==
    /\ geometryCache = <<>>
    /\ game = [InitialGameState EXCEPT !.isLoading = TRUE, !.pending = 1, !.runs = 1]
    /\ player = InitialPlayerState
    /\ input = InitialInput
    /\ tick = NoTick
    /\ hist = NoHistory
    /\ probe = NoProbe
    /\ pipeline = NoPipeline
    /\ audio = [NoAudio EXCEPT !.enabled = TRUE]
    /\ session = [NoSession EXCEPT !.startScreen = FALSE, !.loadingScreen = TRUE]

\* the article narrated: its second sentence is too short for a platform
NarratedArticle ==
    << Sentence("s0", WordsText(3), 500), Sentence("s1", WordsText(2), 700),
       Sentence("s2", WordsText(3), 504) >>

\* the generateAudio requests there can be: for a sentence, issued by
\* processAudioQueue or by playSentence
Requests ==
    UNION { { Request(sentences[i], by) : i \in DOMAIN sentences, by \in {"queue", "play"} } :
              sentences \in Articles \cup {NarratedArticle} }

\* a generateAudio request resolves with a buffer or rejects
generationSettles(request, succeeded) ==
    /\ BagIn(request, audio.inFlight)
    /\ audio' = afterGeneration(audio, request, succeeded)
    /\ UNCHANGED <<geometryCache, game, player, input, tick, hist, probe, pipeline, session>>

\* the keys pressed in the narrated game
NarratedKeys == {"right"}

\* the game of Spec on one article, with narration
NarratedNext ==
    \/ PipelineResolved(NarratedArticle, FALSE)
    \/ \E key \in NarratedKeys : handleKeyDown(key)
    \/ \E key \in NarratedKeys : handleKeyUp(key)
    \/ \E deltaTime \in DeltaTimes : Frame(deltaTime)
    \/ \E request \in Requests, succeeded \in BOOLEAN : generationSettles(request, succeeded)

NarratedSpec == NarratedInit /\ [][NarratedNext]_vars

\* AudioManager on its own, over successive games: Game.createLevel hands
\* the sentences of the article of the game that starts to preloadSentences
\* (probe.sentences is the article of the current game), and
\* Player.onPlatformChange calls playSentence for sentences of that article
preload(sentences) ==
    /\ audio.calls < MaxAudioCalls
    /\ audio' = [preloadSentences(audio, NarratedOf(sentences)) EXCEPT !.calls = @ + 1]
    /\ probe' = [probe EXCEPT !.sentences = sentences]
    /\ UNCHANGED <<geometryCache, game, player, input, tick, hist, pipeline, session>>

play(i) ==
    /\ audio.calls < MaxAudioCalls
    /\ i \in DOMAIN probe.sentences
    /\ audio' = [playSentence(audio, Narrated(probe.sentences[i])).audio EXCEPT !.calls = @ + 1]
    /\ UNCHANGED <<geometryCache, game, player, input, tick, hist, probe, pipeline, session>>

AudioNext ==
    \/ \E sentences \in Articles : preload(sentences)
    \/ \E i \in 1..MaxSentences : play(i)
    \/ \E request \in Requests, succeeded \in BOOLEAN : generationSettles(request, succeeded)

AudioSpec == AudioInit /\ [][AudioNext]_vars

\* every generateAudio call settles in the end: the fetch of the request
\* comes back or fails
AudioSettlingSpec ==
    /\ AudioInit
    /\ [][AudioNext]_vars
    /\ WF_vars(\E request \in Requests, succeeded \in BOOLEAN :
                   generationSettles(request, succeeded))

----------------------------------------------------------------------------
(* GeometryGenerator.createCurvedPlatform on its own: the meshes it hands out,
   and what a caller can do to one of them *)

CacheLengths == {6000, 8000}

CacheCurviness == {0, 4, 500}

\* probe.returned: the meshes handed out, each with its own position and
\* whether the caller changed it; probe.translated: per geometry object,
\* whether its vertices were moved
CacheInit ==
    /\ geometryCache = <<>>
    /\ game = InitialGameState
    /\ player = InitialPlayerState
    /\ input = InitialInput
    /\ tick = NoTick
    /\ hist = NoHistory
    /\ probe = [ returned |-> <<>>, translated |-> <<>> ]
    /\ pipeline = NoPipeline
    /\ audio = NoAudio
    /\ session = NoSession

requestPlatform(length, curviness) ==
    /\ Len(probe.returned) < MaxRequests
    /\ LET made == createCurvedPlatform(geometryCache, length, platformWidth, curviness)
           geometry == made.mesh.geometry
       IN  /\ geometryCache' = made.cache
           /\ probe' = [ returned |->
                           Append(probe.returned,
                                  [ mesh |-> made.mesh,
                                    args |-> <<length, platformWidth, curviness>>,
                                    position |-> 0,
                                    changed |-> FALSE ]),
                         translated |->
                           IF geometry \in DOMAIN probe.translated
                           THEN probe.translated
                           ELSE probe.translated @@ (geometry :> FALSE) ]
    /\ UNCHANGED <<game, player, input, tick, hist, pipeline, audio, session>>

\* mesh.position.x = ...: the position belongs to the mesh
movePosition(i) ==
    /\ i \in DOMAIN probe.returned
    /\ ~probe.returned[i].changed
    /\ probe' = [probe EXCEPT !.returned[i].position = 1000,
                              !.returned[i].changed = TRUE]
    /\ UNCHANGED <<geometryCache, game, player, input, tick, hist, pipeline, audio, session>>

\* mesh.geometry.translate(...): the vertices belong to the geometry object
translateGeometry(i) ==
    /\ i \in DOMAIN probe.returned
    /\ ~probe.returned[i].changed
    /\ probe' = [probe EXCEPT !.translated[probe.returned[i].mesh.geometry] = TRUE,
                              !.returned[i].changed = TRUE]
    /\ UNCHANGED <<geometryCache, game, player, input, tick, hist, pipeline, audio, session>>

CacheNext ==
    \/ \E length \in CacheLengths, curviness \in CacheCurviness :
         requestPlatform(length, curviness)
    \/ \E i \in 1..MaxRequests : movePosition(i)
    \/ \E i \in 1..MaxRequests : translateGeometry(i)

CacheSpec == CacheInit /\ [][CacheNext]_vars

----------------------------------------------------------------------------
(* Utils.generateCurve on its own, at two points of one curve *)

\* curve lengths: a quarter unit, one, three, four and eleven words
CurveLengths == {500, 2000, 6000, 8000, 22000}

CurveCurviness == {0, 500, 1000}

\* the points 0, 0.5, 1, ... of a curve of the given length
CurveXs(length) == { k * 500 : k \in 0..Min(MaxSamples, length \div 500) }

CurveInit ==
    /\ geometryCache = <<>>
    /\ game = InitialGameState
    /\ player = InitialPlayerState
    /\ input = InitialInput
    /\ tick = NoTick
    /\ hist = NoHistory
    /\ \E length \in CurveLengths, curviness \in CurveCurviness :
         \E x1, x2 \in CurveXs(length) :
           /\ x1 < x2
           /\ probe = [ length |-> length, curviness |-> curviness,
                        x1 |-> x1, x2 |-> x2, evaluated |-> FALSE,
                        y1 |-> 0, y2 |-> 0 ]
    /\ pipeline = NoPipeline
    /\ audio = NoAudio
    /\ session = NoSession

EvaluateCurve ==
    /\ ~probe.evaluated
    /\ probe' = [probe EXCEPT
                   !.evaluated = TRUE,
                   !.y1 = generateCurve(probe.x1, probe.length, probe.curviness),
                   !.y2 = generateCurve(probe.x2, probe.length, probe.curviness)]
    /\ UNCHANGED <<geometryCache, game, player, input, tick, hist, pipeline, audio, session>>

CurveNext == EvaluateCurve

CurveSpec == CurveInit /\ [][CurveNext]_vars

----------------------------------------------------------------------------
(* ContentPipeline: one processUrl run on its own, over the answers the     *)
(* three services can give, followed by Game.createLevel                    *)

\* a sentence of n words that ends with the punctuation character mark
Phrase(n, mark) == WordsText(n) \o <<mark>>

\* fallbackContentExtraction: the fixed text, six sentences of 4, 7, 7, 9, 10
\* and 11 words
FallbackText ==
    Phrase(4, ".") \o <<" ">> \o Phrase(7, ".") \o <<" ">> \o Phrase(7, ".")
      \o <<" ">> \o Phrase(9, ".") \o <<" ">> \o Phrase(10, ".")
      \o <<" ">> \o Phrase(11, ".")

\* fallbackStructureContent: the text used when the article has none, two
\* sentences of 3 and 12 words
DefaultText == Phrase(3, ".") \o <<" ">> \o Phrase(12, ".")

\* Utils.splitIntoSentences on undefined or empty text: 'No content available'
NoContentAvailable == WordsText(3)

Article(text) ==
    [hasText |-> TRUE, text |-> text, hasParagraphs |-> FALSE, sentences |-> <<>>]

Structured(sentences) ==
    [hasText |-> FALSE, text |-> <<>>, hasParagraphs |-> TRUE, sentences |-> sentences]

\* the texts the content service can return as items[0].text
ItemTexts ==
    { Phrase(3, ".") \o <<" ">> \o Phrase(2, "!") \o <<" ">> \o Phrase(5, "?"),
      WordsText(4),
      <<" ", " ">>,
      <<" ">> \o Phrase(3, ".") \o <<" ", " ">> \o WordsText(3) }

\* what the content service answers
FetchResponses ==
    { [kind |-> k, text |-> <<>>] :
        k \in {"networkError", "notOk", "unparsable", "notSucceeded", "noItems",
               "itemWithoutText"} }
    \cup { [kind |-> "item", text |-> t] : t \in ItemTexts }

\* lines 175-230
fallbackContentExtraction == Article(FallbackText)

\* lines 64-168: every failure ends in the fallback; a dataset item is
\* returned as it is, with or without a text
fetchArticleContent(response) ==
    IF response.kind = "item" THEN Article(response.text)
    ELSE IF response.kind = "itemWithoutText" THEN NoContent
    ELSE fallbackContentExtraction

IsTerminator(c) == c \in {".", "!", "?"}

\* the matches of sentenceRegex in text: a terminator followed by a
\* whitespace character or by the end of the text
MatchesIn(text) ==
    { i \in 1..Len(text) :
        IsTerminator(text[i]) /\ (i = Len(text) \/ text[i + 1] = " ") }

\* the exec loop of splitIntoSentences: the k-th match closes the sentence
\* that starts behind the match before it (a match takes the terminator and
\* the whitespace character after it); what is left behind the last match is
\* the last sentence
SentencesFrom(text) ==
    LET matches == MatchesIn(text)
        n == Cardinality(matches)
        matchAt(k) == CHOOSE i \in matches : Cardinality({ j \in matches : j < i }) = k - 1
        lastIndex(k) == IF k = 0 THEN 1 ELSE matchAt(k) + 2
        pieces == [ k \in 1..(n + 1) |->
                      IF k <= n THEN Trim(SubSeq(text, lastIndex(k - 1), matchAt(k)))
                      ELSE Trim(SubSeq(text, lastIndex(n), Len(text))) ]
    IN  SelectSeq(pieces, LAMBDA sentence : sentence # <<>>)

\* Utils.splitIntoSentences
splitIntoSentences(text) ==
    IF text = <<>> THEN <<NoContentAvailable>>
    ELSE LET sentences == SentencesFrom(text)
         IN  IF sentences = <<>> THEN <<Trim(text)>> ELSE sentences

\* `s${pIndex}`
SentenceIds == <<"s0", "s1", "s2", "s3", "s4", "s5", "s6", "s7">>

\* lines 293-363: one paragraph of one sentence for every sentence of the text
fallbackStructureContent(articleContent) ==
    LET text == IF articleContent.hasText /\ articleContent.text # <<>>
                THEN articleContent.text ELSE DefaultText
        sentences == splitIntoSentences(text)
    IN  Structured([ i \in 1..Len(sentences) |->
                       [ id |-> SentenceIds[i], text |-> sentences[i],
                         length |-> countWords(sentences[i]),
                         hasCurviness |-> FALSE, curviness |-> 0 ] ])

\* a sentence as the structuring service returns it
Unscored(id, text) == [Sentence(id, text, 0) EXCEPT !.hasCurviness = FALSE]

\* what the structuring service answers: an error, a body that is no JSON, a
\* JSON value without paragraphs, paragraphs without sentences, or sentences
StructureResponses ==
    { [kind |-> k, sentences |-> <<>>] :
        k \in {"networkError", "notOk", "unparsable", "noParagraphs", "noSentences"} }
    \cup { [kind |-> "structured", sentences |-> l] :
             l \in { << Unscored("p0", Phrase(3, ".")), Unscored("p1", Phrase(6, "?")) >>,
                     << Unscored("q0", Phrase(2, "!")), Unscored("q1", Phrase(3, ".")),
                        Unscored("q2", Phrase(16, ".")) >> } }

\* lines 238-285: the parsed body is returned without a look at it
structureContent(articleContent, response) ==
    IF response.kind \in {"structured", "noSentences"}
    THEN Structured(response.sentences)
    ELSE IF response.kind = "noParagraphs" THEN NoContent
    ELSE fallbackStructureContent(articleContent)

\* the scores the tone service can give, in hundredths
ScoreValues == {-300, 0, 504, 1000, 1500}

\* Math.random() * 2 - 1, in hundredths
RandomParts == {-100, 0, 99}

\* what the tone service answers: an error, a body that is no JSON, a body
\* without choices, a message that is no JSON, a message that is JSON but no
\* array, or an array of scores (for every sentence, for the first only, or
\* for strings that are the sentences followed by a blank)
ToneResponses ==
    { [kind |-> k, curviness |-> 0, scored |-> "none"] :
        k \in {"networkError", "notOk", "unparsable", "noChoices", "notJson",
               "notArray"} }
    \cup { [kind |-> "scores", curviness |-> v, scored |-> w] :
             v \in ScoreValues, w \in {"all", "first", "inexact"} }

\* the array the tone service returned: items {sentence, curviness}
curvinessDataOf(structuredContent, response) ==
    IF response.kind # "scores" THEN <<>>
    ELSE LET n == IF response.scored = "first"
                  THEN Min(1, Len(structuredContent.sentences))
                  ELSE Len(structuredContent.sentences)
             quoted(text) == IF response.scored = "inexact" THEN text \o <<" ">>
                             ELSE text
         IN  [ i \in 1..n |-> [ sentence  |-> quoted(structuredContent.sentences[i].text),
                                curviness |-> response.curviness ] ]

\* the i-th score is given to the i-th sentence
mergeCurvinessScores_ByPosition(structuredContent, curvinessData) ==
    LET sentences == structuredContent.sentences
    IN  [structuredContent EXCEPT !.sentences =
            [ i \in 1..Len(sentences) |->
                [sentences[i] EXCEPT
                    !.hasCurviness = TRUE,
                    !.curviness = IF i <= Len(curvinessData)
                                  THEN curvinessData[i].curviness
                                  ELSE defaultCurviness] ]]

\* lines 443-467: the score found under the sentence text, else the default
mergeCurvinessScores(structuredContent, curvinessData) ==
    LET scoreOf(text) ==
            LET hits == { i \in 1..Len(curvinessData) : curvinessData[i].sentence = text }
            IN  IF hits = {} THEN defaultCurviness
                ELSE curvinessData[CHOOSE i \in hits : \A k \in hits : k <= i].curviness
        sentences == structuredContent.sentences
    IN  [structuredContent EXCEPT !.sentences =
            [ i \in 1..Len(sentences) |->
                [sentences[i] EXCEPT !.hasCurviness = TRUE,
                                     !.curviness = scoreOf(sentences[i].text)] ]]

\* lines 490-508: the heuristic score of one sentence, random the value of
\* Math.random() * 2 - 1
heuristicCurviness(sentence, random) ==
    LET wordCount == IF sentence.length # 0 THEN sentence.length
                     ELSE countWords(sentence.text)
        lengthFactor == IF wordCount > 15 THEN 200
                        ELSE IF wordCount < 5 THEN -200 ELSE 0
        has(c) == \E i \in 1..Len(sentence.text) : sentence.text[i] = c
        punctuationFactor == IF has("!") THEN 300 ELSE IF has("?") THEN 200 ELSE 0
    IN  Max(0, Min(maxCurviness,
            defaultCurviness + lengthFactor + punctuationFactor + random))

\* lines 474-513; randoms[i] is the random part drawn for sentence i
fallbackAssignCurviness(structuredContent, randoms) ==
    LET sentences == structuredContent.sentences
    IN  [structuredContent EXCEPT !.sentences =
            [ i \in 1..Len(sentences) |->
                [sentences[i] EXCEPT
                    !.hasCurviness = TRUE,
                    !.curviness = heuristicCurviness(sentences[i], randoms[i])] ]]

\* lines 372-435: content without paragraphs throws in the try block and
\* again in the fallback, so the call rejects; any other failure ends in the
\* fallback; a message that is no JSON is read as an empty array
analyzeTone(structuredContent, response, randoms) ==
    LET curvinessData == curvinessDataOf(structuredContent, response)
    IN  IF ~structuredContent.hasParagraphs
        THEN [ rejected |-> TRUE, merged |-> FALSE, curvinessData |-> <<>>,
               content |-> NoContent ]
        ELSE IF response.kind \in {"scores", "notJson"}
        THEN [ rejected |-> FALSE, merged |-> TRUE, curvinessData |-> curvinessData,
               content |-> mergeCurvinessScores(structuredContent, curvinessData) ]
        ELSE [ rejected |-> FALSE, merged |-> FALSE, curvinessData |-> <<>>,
               content |-> fallbackAssignCurviness(structuredContent, randoms) ]

\* lines 532-550
getAllSentences(articleData) == articleData.sentences

Stages == <<"fetch", "structure", "tone">>

\* every stage not yet completed is started at once
stagesStartedAfter_FanOut(done) ==
    { Stages[i] : i \in (Len(done) + 1)..Len(Stages) }

\* processUrl, lines 27-35: the stage called once the stages of done have
\* returned
stagesStartedAfter(done) ==
    IF Len(done) < Len(Stages) THEN {Stages[Len(done) + 1]} ELSE {}

processUrl ==
    /\ pipeline.status = "idle"
    /\ pipeline' = [pipeline EXCEPT !.status = "running",
                                    !.running = stagesStartedAfter(<<>>)]
    /\ UNCHANGED <<geometryCache, game, player, input, tick, hist, probe, audio, session>>

\* a stage that has returned: the next stage is called, or processUrl settles
StageReturned(stage, field, content, rejected, fellBack) ==
    LET done == Append(pipeline.done, stage)
        last == done = Stages \/ rejected
    IN  [pipeline EXCEPT
           ![field] = content,
           !.done = done,
           !.fellBack = IF fellBack THEN @ \cup {stage} ELSE @,
           !.running = (@ \ {stage}) \cup
                          (IF rejected THEN {} ELSE stagesStartedAfter(done)),
           !.status = IF rejected THEN "rejected"
                      ELSE IF last THEN "resolved" ELSE @,
           !.hasArticleData = last /\ ~rejected ]

fetchSettles(response) ==
    /\ "fetch" \in pipeline.running
    /\ pipeline' = StageReturned("fetch", "articleContent",
                                 fetchArticleContent(response), FALSE,
                                 response.kind \notin {"item", "itemWithoutText"})
    /\ UNCHANGED <<geometryCache, game, player, input, tick, hist, probe, audio, session>>

structureSettles(response) ==
    /\ "structure" \in pipeline.running
    /\ pipeline' = StageReturned("structure", "structuredContent",
                                 structureContent(pipeline.articleContent, response),
                                 FALSE,
                                 response.kind \in {"networkError", "notOk", "unparsable"})
    /\ UNCHANGED <<geometryCache, game, player, input, tick, hist, probe, audio, session>>

toneSettles(response, r1, r2) ==
    /\ "tone" \in pipeline.running
    /\ LET randoms == [ i \in 1..Len(pipeline.structuredContent.sentences) |->
                          IF i % 2 = 1 THEN r1 ELSE r2 ]
           result == analyzeTone(pipeline.structuredContent, response, randoms)
       IN  pipeline' = [StageReturned("tone", "articleData", result.content,
                                      result.rejected,
                                      response.kind \notin {"scores", "notJson"})
                          EXCEPT !.merged = result.merged,
                                 !.curvinessData = result.curvinessData]
    /\ UNCHANGED <<geometryCache, game, player, input, tick, hist, probe, audio, session>>

\* Game.startGame, lines 149-152: createLevel after the awaited processUrl
createLevelFromArticle ==
    /\ pipeline.status = "resolved"
    /\ ~probe.built
    /\ LET sentences == getAllSentences(pipeline.articleData)
           made == createLevel(geometryCache, sentences)
       IN  /\ probe' = [sentences |-> sentences, built |-> TRUE, level |-> made.level]
           /\ geometryCache' = made.cache
    /\ UNCHANGED <<game, player, input, tick, hist, pipeline, audio, session>>

PipelineNext ==
    \/ processUrl
    \/ \E response \in FetchResponses : fetchSettles(response)
    \/ \E response \in StructureResponses : structureSettles(response)
    \/ \E response \in ToneResponses, r1, r2 \in RandomParts :
           toneSettles(response, r1, r2)
    \/ createLevelFromArticle

PipelineSpec == Init /\ [][PipelineNext]_vars

----------------------------------------------------------------------------
(* Properties *)

Children == game.level.children

\* the player's current platform is one of the level in place
HasCurrent == game.hasLevel /\ player.currentPlatform # NoPlatform

Current == Children[player.currentPlatform]

\* the local x of a platform at which its height is compared: every half unit
SampleXs(platform) ==
    { k * 500 - platform.length \div 2 : k \in 0..(platform.length \div 500) }

InSpan(platform, x) == x >= platformLeft(platform) /\ x <= platformRight(platform)

\* C1: on every platform of the level, fresh or served from the geometry
\* cache, the height query at local x returns generateCurve(x + length/2,
\* length, curviness) for the platform's own length and curviness
C1_HeightQueryFollowsCurve ==
    \A i \in 1..Len(Children) :
        \A x \in SampleXs(Children[i]) :
            getPlatformYAtX(Children[i], x)
              = generateCurve(x + Children[i].length \div 2,
                              Children[i].length, Children[i].curviness)

\* C2: in a built level every platform starts exactly one gap (2 units)
\* after the end of the platform before it, so no two spans share an x
C2_GapIsExact ==
    LET built == probe.level.children
    IN  probe.built =>
          /\ \A i \in 1..(Len(built) - 1) :
                platformLeft(built[i + 1]) = platformRight(built[i]) + 2000
          /\ \A i, j \in 1..Len(built) :
                i < j => platformRight(built[i]) < platformLeft(built[j])

C2_Witness ==
    /\ probe.built
    /\ Len(probe.level.children) >= 2
    /\ Len(probe.level.children) < Len(probe.sentences)

RECURSIVE StrictlyIncreasing(_)
StrictlyIncreasing(seq) ==
    \/ Len(seq) <= 1
    \/ seq[1] < seq[2] /\ StrictlyIncreasing(Tail(seq))

\* C3: a tick that leaves the current platform the same never lowers
\* currentWordIndex, and the word indices awarded since the platform was
\* entered are strictly increasing (none is awarded twice)
C3_IndexMonotonic ==
    /\ (tick.ran /\ tick.before.currentPlatform = player.currentPlatform)
          => player.currentWordIndex >= tick.before.currentWordIndex
    /\ StrictlyIncreasing(hist.awarded)

\* the player moved back to an earlier word of the platform it is on
C3_Witness ==
    /\ tick.ran
    /\ HasCurrent
    /\ tick.before.currentPlatform = player.currentPlatform
    /\ tick.wordIndex >= 0
    /\ tick.wordIndex < player.currentWordIndex
    /\ player.currentWordIndex < Len(Current.words)
    /\ hist.awarded # <<>>

\* C4: the completion bonus is awarded at most once per platform in a run,
\* only in a tick whose word index is the last one at relative position
\* >= 0.95, and leaves currentWordIndex at the sentinel wordCount
C4_BonusOncePerPlatform ==
    /\ \A i \in 1..Len(hist.bonuses) : hist.bonuses[i] <= 1
    /\ (tick.ran /\ tick.bonus) =>
          /\ HasCurrent
          /\ tick.wordIndex = Len(Current.words) - 1
          /\ NearEnd(player, Current)
          /\ player.currentWordIndex = Len(Current.words)

\* the indices 1..k in increasing order
Upto(k) == [i \in 1..k |-> i]

\* C5: on a platform of n words and length 2n entered at its first word,
\* the words awarded so far are 1..currentWordIndex in order, and once the
\* platform is completed they are 1..n-1 plus one bonus, worth
\* scorePerWord*(n-1) + scorePerWord*bonusMultiplier
C5_TraversalAwards ==
    (HasCurrent /\ hist.enteredAtStart
       /\ Current.length = 2000 * Len(Current.words)) =>
        LET n == Len(Current.words)
            crossed == Min(player.currentWordIndex, n - 1)
        IN  /\ hist.awarded = Upto(crossed)
            /\ player.score - hist.entryScore =
                 scorePerWord * crossed
                 + (IF player.currentWordIndex = n
                    THEN scorePerWord * bonusMultiplier ELSE 0)

C5_Witness ==
    /\ HasCurrent
    /\ hist.enteredAtStart
    /\ Current.length = 2000 * Len(Current.words)
    /\ player.currentWordIndex = Len(Current.words)
    /\ hist.awarded = Upto(Len(Current.words) - 1)

\* C6: a tick that starts grounded and finds no platform beneath the player
\* ends with isGrounded false and currentPlatform cleared
C6_WalkOffClearsPlatform ==
    (tick.ran /\ tick.before.isGrounded /\ tick.selected = NoPlatform) =>
        /\ ~player.isGrounded
        /\ player.currentPlatform = NoPlatform

\* C7: words and bonus are awarded only in ticks that end grounded on the
\* scored platform with the player's x inside its span
C7_AwardsOnlyGroundedInSpan ==
    (tick.ran /\ (tick.crossed \/ tick.bonus)) =>
        /\ player.isGrounded
        /\ HasCurrent
        /\ InSpan(Current, player.position.x)

\* C8: landing on a platform other than the previous current one resets the
\* word index to 0 and plays exactly that platform's sentence; landing on the
\* current platform keeps the index and plays nothing
C8_PlatformChange ==
    (tick.ran /\ tick.landed) =>
        IF tick.selected # tick.before.currentPlatform
        THEN /\ tick.indexAfterCollision = 0
             /\ tick.sentencesPlayed = <<Children[tick.selected].sentence.id>>
        ELSE /\ tick.indexAfterCollision = tick.before.currentWordIndex
             /\ tick.sentencesPlayed = <<>>

\* the player landed on another platform than the one it came from, with
\* words already crossed there
C8_Witness ==
    /\ tick.ran
    /\ tick.landed
    /\ tick.before.currentPlatform # NoPlatform
    /\ tick.selected # tick.before.currentPlatform
    /\ tick.before.currentWordIndex > 0

\* platforms under the player's x whose surface is at most playerY + radius
Candidates ==
    { i \in 1..Len(Children) :
        /\ InSpan(Children[i], player.position.x)
        /\ absolutePlatformY(Children[i], player.position.x)
             <= tick.yAtCheck + 500 }

\* C9: the platform selected in a tick is a highest one among those under
\* the player's x with surface <= playerY + radius; none if there is none
C9_HighestValidPlatform ==
    tick.ran =>
        IF Candidates = {} THEN tick.selected = NoPlatform
        ELSE /\ tick.selected \in Candidates
             /\ tick.platformY = absolutePlatformY(Children[tick.selected],
                                                   player.position.x)
             /\ \A i \in Candidates :
                   absolutePlatformY(Children[i], player.position.x) <= tick.platformY

\* several platforms qualify, and the selected one is neither the first nor
\* the last of them in the level's order
C9_Witness ==
    /\ tick.ran
    /\ \E i, j \in Candidates :
          /\ i < tick.selected
          /\ tick.selected < j
          /\ absolutePlatformY(Children[i], player.position.x) < tick.platformY
          /\ absolutePlatformY(Children[j], player.position.x) < tick.platformY

\* C10: a landing happens only with velocity.y < 0, a selected platform and
\* playerY - surfaceY <= radius, and leaves y = surfaceY + radius,
\* velocity.y = 0, grounded, not jumping; with velocity.y >= 0 the player is
\* neither snapped nor grounded
C10_LandingResolution ==
    tick.ran =>
        /\ tick.landed =>
              /\ tick.fallingAtCheck
              /\ tick.selected # NoPlatform
              /\ tick.yAtCheck - tick.platformY <= 500
              /\ player.position.y = tick.platformY + 500
              /\ player.velocity.y = 0
              /\ player.isGrounded
              /\ ~player.isJumping
        /\ ~tick.fallingAtCheck =>
              /\ ~tick.landed
              /\ ~player.isGrounded
              /\ player.position.y = tick.yAtCheck

\* the player comes down from a jump onto a platform
C10_Witness ==
    /\ tick.ran
    /\ tick.landed
    /\ tick.before.isJumping
    /\ tick.yAtCheck # player.position.y

\* C11 (as claimed): the player becomes grounded only by a landing, leaves
\* the ground only by a jump taken while grounded or because no platform
\* qualifies beneath it, and starts a jump only in a tick that begins grounded
C11_GroundedTransitions ==
    tick.ran =>
        /\ (~tick.before.isGrounded /\ player.isGrounded) => tick.landed
        /\ (tick.before.isGrounded /\ ~player.isGrounded) =>
              (tick.jumped \/ tick.selected = NoPlatform)
        /\ tick.jumped => tick.before.isGrounded

\* C11 (amended): the player also leaves the ground when the selected
\* surface lies more than the landing tolerance (0.5) below it
C11_GroundedTransitionsWithTolerance ==
    tick.ran =>
        /\ (~tick.before.isGrounded /\ player.isGrounded) => tick.landed
        /\ (tick.before.isGrounded /\ ~player.isGrounded) =>
              \/ tick.jumped
              \/ tick.selected = NoPlatform
              \/ tick.yAtCheck - tick.platformY > 500
        /\ tick.jumped => tick.before.isGrounded

\* the player left the ground over a platform without jumping
C11_Witness ==
    /\ tick.ran
    /\ tick.before.isGrounded
    /\ ~player.isGrounded
    /\ ~tick.jumped
    /\ tick.selected # NoPlatform
    /\ tick.yAtCheck - tick.platformY > 500

\* C12: no tick is executed while Game.state.isPaused is true
C12_NoTickWhilePaused ==
    tick.ran => ~tick.whilePaused

\* C13: a pipeline result that arrives after Game.reset overtook its
\* startGame call is ignored: it creates no level and starts no play
C13_LateResultIgnored ==
    game.startedBy # "late"

\* the whitespace-delimited words of a text: its maximal runs of non-blanks
WordsIn(text) ==
    Cardinality({ i \in 1..Len(text) :
                    text[i] # " " /\ (i = 1 \/ text[i - 1] = " ") })

\* the sentences of a list that have at least minSentenceLength words
LongEnough(sentences) ==
    SelectSeq(sentences, LAMBDA s : WordsIn(s.text) >= minSentenceLength)

\* C19: createLevel builds one platform for each input sentence of at least
\* minSentenceLength whitespace-delimited words, in input order, and none for
\* any other sentence; sentenceCount is the input count, so sentenceCount
\* minus the number of platforms is the number of dropped sentences
C19_PlatformsForLongSentences ==
    probe.built =>
        LET kept == LongEnough(probe.sentences)
            children == probe.level.children
        IN  /\ Len(children) = Len(kept)
            /\ \A i \in 1..Len(children) : children[i].sentence = kept[i]
            /\ probe.level.sentenceCount = Len(probe.sentences)
            /\ probe.level.sentenceCount - Len(children) =
                   Cardinality({ i \in 1..Len(probe.sentences) :
                       WordsIn(probe.sentences[i].text) < minSentenceLength })

\* a level built from a list holding an empty text, a text too short and a
\* text long enough, with one sentence dropped and one platform built
C19_Witness ==
    /\ probe.built
    /\ \E i \in 1..Len(probe.sentences) : probe.sentences[i].text = <<>>
    /\ \E i \in 1..Len(probe.sentences) :
           WordsIn(probe.sentences[i].text) \in 1..(minSentenceLength - 1)
    /\ Len(probe.level.children) = 1
    /\ probe.level.sentenceCount = 3

\* C20: on every platform of a built level the number of entries of
\* userData.words is the word count its length was computed from: length is
\* 2 units per entry of words, hence at least 2 * minSentenceLength units
C20_WordsMatchLength ==
    probe.built =>
        \A i \in 1..Len(probe.level.children) :
            LET platform == probe.level.children[i]
            IN  /\ platform.length = unitsPerWord * Len(platform.words)
                /\ platform.length >= unitsPerWord * minSentenceLength

\* C14: whatever the three services answer, processUrl does not reject, and
\* the article data it resolves with holds at least one sentence, every
\* sentence with a curviness value
C14_AlwaysResolvesWithSentences ==
    /\ pipeline.status # "rejected"
    /\ pipeline.status = "resolved" =>
          /\ pipeline.hasArticleData
          /\ Len(pipeline.articleData.sentences) >= 1
          /\ \A i \in 1..Len(pipeline.articleData.sentences) :
                 pipeline.articleData.sentences[i].hasCurviness

\* C15: the stages of a run are executed in the order fetch, structure, tone,
\* at most one of them is in progress at any time, the stage in progress is
\* the one after the stages that have returned, and createLevel has run only
\* if processUrl resolved after all three
C15_StagesInOrder ==
    /\ Cardinality(pipeline.running) <= 1
    /\ Len(pipeline.done) <= Len(Stages)
    /\ \A i \in 1..Len(pipeline.done) : pipeline.done[i] = Stages[i]
    /\ \A stage \in pipeline.running : stage = Stages[Len(pipeline.done) + 1]
    /\ probe.built =>
          /\ pipeline.status = "resolved"
          /\ pipeline.done = Stages
          /\ pipeline.running = {}

\* a level with a platform, built after a run in which the fetch stage and
\* the tone stage both ended in their fallback
C15_Witness ==
    /\ probe.built
    /\ {"fetch", "tone"} \subseteq pipeline.fellBack
    /\ Len(probe.level.children) >= 1

\* C18: every sentence handed to createLevel has a curviness between 0 and
\* 10 (0 and 1000 hundredths)
C18_CurvinessInRange ==
    probe.built =>
        \A i \in 1..Len(probe.sentences) :
            /\ probe.sentences[i].hasCurviness
            /\ probe.sentences[i].curviness >= 0
            /\ probe.sentences[i].curviness <= maxCurviness

\* the generateAudio requests in flight that processAudioQueue issued
QueueDriven ==
    LET requests == { r \in BagToSet(audio.inFlight) : r.by = "queue" }
    IN  [ r \in requests |-> audio.inFlight[r] ]

\* C16: at most one generateAudio request issued for the queue is in flight
\* at any time, whatever the sequence of preloadSentences calls
C16_OneQueueRequestInFlight == BagCardinality(QueueDriven) <= 1

\* C17: narration never reaches the tick.  No tick waits for audio; every
\* tick leaves the player in the state Player.update computes from the
\* state, the input and the frame time alone, whatever is queued, cached, in
\* flight or failed; and a request that settles, with a buffer or with an
\* error, changes nothing of the game
C17_NarrationIsBestEffort ==
    [][ /\ (game.isPlaying /\ (player' # player \/ tick' # tick)) =>
              /\ ~tick'.awaitsAudio
              /\ \E deltaTime \in DeltaTimes :
                     player' = Update(player, input, Min(deltaTime, maxDelta),
                                      game.level).state
        /\ (BagCardinality(audio'.inFlight) < BagCardinality(audio.inFlight)
              \/ audio'.failed # audio.failed) =>
              UNCHANGED <<game, player, tick, hist>> ]_vars

\* a tick that entered a platform and scored while the generation of a
\* sentence had failed and another request was still in flight
C17_Witness ==
    /\ tick.ran
    /\ tick.sentencesPlayed # <<>>
    /\ audio.failed # {}
    /\ audio.inFlight # EmptyBag
    /\ player.isGrounded

\* C21: the k-th platform built (k = 0, 1, 2, ... over the sentences that
\* were kept) lies at y = -5 * k, whatever its curviness and however many
\* sentences were dropped before it; the first and the last of m platforms
\* differ in y by 5 * (m - 1)
C21_FixedStepPerPlatform ==
    probe.built =>
        LET children == probe.level.children
            m == Len(children)
        IN  /\ \A k \in 1..m : children[k].position.y = -(5000 * (k - 1))
            /\ m >= 1 => children[1].position.y - children[m].position.y = 5000 * (m - 1)

\* a level of two platforms of different curviness, built from three
\* sentences of which the second was dropped
C21_Witness ==
    /\ probe.built
    /\ Len(probe.sentences) = 3
    /\ WordsIn(probe.sentences[2].text) < minSentenceLength
    /\ Len(probe.level.children) = 2
    /\ probe.level.children[1].curviness # probe.level.children[2].curviness

\* C22: a platform gets a cached shape only if that shape was built with
\* exactly its length, width and curviness: the shape of every platform of a
\* built level is the curve of the platform's own length and curviness
C22_CacheKeyedByExactTriple ==
    probe.built =>
        \A i \in 1..Len(probe.level.children) :
            LET platform == probe.level.children[i]
            IN  /\ platform.mesh.shapeLength = platform.length
                /\ platform.mesh.shapeCurviness = platform.curviness

\* C24: mergeCurvinessScores gives every sentence a curviness: the score of
\* an entry whose sentence string equals the sentence text if there is one,
\* else the default 5.0; the structured content it was given is left as it
\* was
C24_MergeByExactText ==
    pipeline.merged =>
        LET given == pipeline.structuredContent.sentences
            merged == pipeline.articleData.sentences
            data == pipeline.curvinessData
        IN  /\ Len(merged) = Len(given)
            /\ \A i \in 1..Len(given) :
                   LET entries == { k \in 1..Len(data) : data[k].sentence = given[i].text }
                   IN  /\ merged[i].hasCurviness
                       /\ merged[i].text = given[i].text
                       /\ entries = {} => merged[i].curviness = defaultCurviness
                       /\ entries # {} =>
                              \E k \in entries : merged[i].curviness = data[k].curviness
                       /\ ~given[i].hasCurviness

\* a merge that gave one sentence the score of its entry and another
\* sentence, without entry, the default
C24_Witness ==
    /\ pipeline.merged
    /\ pipeline.curvinessData # <<>>
    /\ \E i, j \in 1..Len(pipeline.articleData.sentences) :
           /\ pipeline.articleData.sentences[i].curviness = 1500
           /\ pipeline.articleData.sentences[j].curviness = defaultCurviness
           /\ \A k \in 1..Len(pipeline.curvinessData) :
                  pipeline.curvinessData[k].sentence
                      # pipeline.articleData.sentences[j].text

\* C27: with curviness 0 the curve descends: of two points of one curve the
\* one further along is strictly lower
C27_FlatCurveDescends ==
    (probe.evaluated /\ probe.curviness = 0) => probe.y2 < probe.y1

\* C23: two requests with the same parameters get the same shape, and a
\* change a caller makes to one returned mesh (position or geometry) shows
\* neither in a mesh the caller left alone nor in a cache entry
C23_ReturnedMeshesIndependent ==
    /\ \A i, j \in DOMAIN probe.returned :
         probe.returned[i].args = probe.returned[j].args =>
           /\ probe.returned[i].mesh.shapeLength = probe.returned[j].mesh.shapeLength
           /\ probe.returned[i].mesh.shapeCurviness = probe.returned[j].mesh.shapeCurviness
    /\ \A i \in DOMAIN probe.returned :
         ~probe.returned[i].changed =>
           /\ probe.returned[i].position = 0
           /\ ~probe.translated[probe.returned[i].mesh.geometry]
    /\ \A cacheKey \in DOMAIN geometryCache :
         ~probe.translated[geometryCache[cacheKey].geometry]

PlayerIsReset ==
    /\ player.score = 0
    /\ player.perfectSurfs = 0
    /\ player.currentWordIndex = 0
    /\ player.currentPlatform = NoPlatform
    /\ ~player.isGrounded
    /\ ~player.isJumping
    /\ player.velocity = [x |-> 0, y |-> 0]

\* C26: the player state is reset at game start and at reset: once startGame
\* has completed and no frame has run yet, and from a Game.reset until the
\* next level is set up, score, perfectSurfs and currentWordIndex are 0,
\* there is no current platform, isGrounded and isJumping are false and the
\* velocity is zero
C26_PlayerResetAtStartAndReset ==
    /\ (game.isPlaying /\ ~tick.ran) => PlayerIsReset
    /\ ~game.hasLevel => PlayerIsReset

\* C25: a startGame whose pipeline rejects leaves the game neither loading
\* nor playing and starts no game loop, so that the next startGame is
\* accepted; and when its error timeout fires the start screen is shown
\* instead of the loading screen
C25_FailedStartReturnsToStart ==
    [][ /\ session'.timers > session.timers =>
              /\ ~game'.isLoading
              /\ ~game'.isPlaying
              /\ session'.loops = session.loops
        /\ session'.timers < session.timers =>
              /\ session'.startScreen
              /\ ~session'.loadingScreen ]_vars

\* C28: at most one chain of animate callbacks is alive, so that one
\* animation frame updates the player at most once
C28_OneGameLoop == session.loops <= 1

\* C29: at most one level and at most one player object are attached to the
\* scene
C29_OneLevelOnePlayerInScene ==
    /\ session.levels <= 1
    /\ session.players <= 1

\* the player is over the surface of a platform of the level
OverSomePlatform ==
    \E k \in DOMAIN game.level.children :
        /\ InSpan(game.level.children[k], player.position.x)
        /\ absolutePlatformY(game.level.children[k], player.position.x)
              <= player.position.y

\* C30: a tick that leaves the player grounded on a platform, short of the
\* end of the level, does not end the level, and a tick short of the end
\* of the level ends it only when the player is below every platform,
\* however many platforms the level has
C30_FallOffOnlyBelowLevel ==
    (tick.ran /\ player.position.x < game.level.totalLength) =>
        /\ (player.isGrounded /\ player.currentPlatform # NoPlatform)
              => tick.endLevelCalls = 0
        /\ tick.endLevelCalls > 0 => ~OverSomePlatform

RECURSIVE MaxScoreOf(_)
\* what the platforms of a level are worth when each word boundary and each
\* completion is paid once
MaxScoreOf(children) ==
    IF children = <<>> THEN 0
    ELSE scorePerWord * (Len(Head(children).words) - 1)
         + scorePerWord * bonusMultiplier
         + MaxScoreOf(Tail(children))

\* C31: over a run the score never exceeds the sum over the platforms of
\* the level of scorePerWord*(words - 1) plus scorePerWord*bonusMultiplier:
\* nothing is paid a second time when the player comes back to a platform
C31_ScoreBoundedByLevel ==
    game.hasLevel => player.score <= MaxScoreOf(game.level.children)

\* C32: at the end of every tick a grounded player has a current platform
\* of the level whose span contains the player's x and has no vertical
\* velocity, and the player is never both grounded and jumping
C32_GroundedOnPlatformInSpan ==
    tick.ran =>
        /\ player.isGrounded =>
              /\ HasCurrent
              /\ InSpan(Current, player.position.x)
              /\ player.velocity.y = 0
        /\ ~(player.isGrounded /\ player.isJumping)

\* a tick that grounds a player who was jumping
C32_Witness ==
    /\ tick.ran
    /\ tick.before.isJumping
    /\ player.isGrounded
    /\ HasCurrent
    /\ InSpan(Current, player.position.x)

\* C33: after every step the score is scorePerWord times the word-crossed
\* awards of the run plus scorePerWord*bonusMultiplier times perfectSurfs;
\* a tick adds exactly scorePerWord when it crosses to a new word, however
\* far the index advances, and the bonus when it completes the platform;
\* score and perfectSurfs never decrease during a run
C33_ScoreIsSumOfAwards ==
    [][ /\ player'.score = scorePerWord * hist'.crossings
                           + scorePerWord * bonusMultiplier * player'.perfectSurfs
        /\ (tick'.ran /\ player' # player) =>
              /\ player'.score = player.score
                                 + (IF tick'.crossed THEN scorePerWord ELSE 0)
                                 + (IF tick'.bonus
                                    THEN scorePerWord * bonusMultiplier ELSE 0)
              /\ player'.perfectSurfs = player.perfectSurfs
                                        + (IF tick'.bonus THEN 1 ELSE 0)
              /\ player'.score >= player.score
              /\ player'.perfectSurfs >= player.perfectSurfs ]_vars

\* a tick in which the index advanced by two words and one award was made
C33_Witness ==
    /\ tick.ran
    /\ tick.crossed
    /\ tick.wordIndex >= tick.indexAfterCollision + 2
    /\ hist.crossings >= 2
    /\ player.score = scorePerWord * hist.crossings
                      + scorePerWord * bonusMultiplier * player.perfectSurfs

\* C34: a tick executes endLevel at most once, also when the player has both
\* reached the end of the level and fallen below the limit, and once the level
\* has ended the player is not updated until the next game start
C34_EndLevelOnce ==
    [][ /\ tick'.endLevelCalls <= 1
        /\ (game.hasLevel /\ ~game.isPlaying /\ ~game'.isPlaying) =>
              player' = player ]_vars

\* C35: whenever playSentence plays a buffer, the buffer was generated from
\* the text of the sentence it was called for, also when successive games on
\* different articles reuse the sentence ids s0, s1, ...
C35_PlayedAudioMatchesSentence ==
    audio.played # <<>> => audio.played[1].buffer = audio.played[1].sentence

\* the player, in the air and not rising, is over the platform and above
\* its surface
FallingAbove(platform) ==
    /\ ~player.isGrounded
    /\ player.velocity.y <= 0
    /\ InSpan(platform, player.position.x)
    /\ player.position.y > absolutePlatformY(platform, player.position.x)

\* C36: a falling player does not pass through a platform.  If the player
\* is within the span of a platform and above its surface at the end of one
\* tick, and the physics step of the next tick takes it below that surface
\* within the span (from above the surface at the place it arrives at),
\* then the landing resolution of that tick grounds the player on that
\* platform
C36_NoFallThroughPlatform ==
    [][ (game.isPlaying /\ game.hasLevel /\ tick'.ran /\ player' # player) =>
            \A k \in DOMAIN game.level.children :
                LET platform == game.level.children[k]
                IN  ( /\ FallingAbove(platform)
                      /\ InSpan(platform, player'.position.x)
                      /\ player.position.y > absolutePlatformY(platform, player'.position.x)
                      /\ tick'.yAtCheck < absolutePlatformY(platform, player'.position.x) )
                    => /\ player'.isGrounded
                       /\ player'.currentPlatform = k ]_vars

\* C37: a startGame call made while isLoading or isPlaying has no effect: no
\* step taken while the game is loading or playing starts a pipeline run or
\* counts as a start, and isLoading and isPlaying are never both true
C37_StartIgnoredWhileBusy ==
    /\ [](~(game.isLoading /\ game.isPlaying))
    /\ [][ (game.isLoading \/ game.isPlaying) =>
              /\ game'.pending <= game.pending
              /\ game'.runs = game.runs ]_vars

\* a game in play, after a tick, in which a further start could still be
\* asked for
C37_Witness ==
    /\ game.isPlaying
    /\ ~game.isLoading
    /\ tick.ran
    /\ game.runs = 1
    /\ game.runs < MaxStarts

\* nothing is queued and no generateAudio call is outstanding
AudioQuiescent == audio.audioQueue = <<>> /\ audio.inFlight = EmptyBag

\* the sentences preloadSentences queued of the article of the current game
Preloaded ==
    {probe.sentences[i].id : i \in 1..Min(preloadCount, Len(probe.sentences))}

\* C38: with audio enabled and every generateAudio call settling in the
\* end, the audio queue becomes empty after every preloadSentences call,
\* also when generations fail; and once nothing is queued or outstanding,
\* every sentence that was queued is cached or its generation failed
C38_AudioQueueDrains ==
    /\ (audio.audioQueue # <<>>) ~> (audio.audioQueue = <<>>)
    /\ <>[]AudioQuiescent
    /\ [](AudioQuiescent =>
             \A id \in Preloaded : id \in DOMAIN audio.audioCache \cup audio.failed)

\* after a single preloadSentences call the generation for the first
\* sentence failed, the second sentence was cached all the same and the
\* queue is empty
C38_Witness ==
    /\ audio.calls = 1
    /\ AudioQuiescent
    /\ audio.failed = {"s0"}
    /\ DOMAIN audio.audioCache = {"s1"}

====
